---- MODULE Spec2Model ----
(***************************************************************************)
(* Model of MainApp in src/src/App.jsx: the notes view-model (React state  *)
(* notes, loading, creating, title, content, file, preview), its three     *)
(* asynchronous operations fetchNotes, createNote and deleteNote, and the  *)
(* remote data and storage services they call.  Every await of the source  *)
(* is a point where an operation is suspended; one action is the code that *)
(* runs between two awaits.                                                *)
(***************************************************************************)
EXTENDS Integers, Sequences, FiniteSets, TLC

VARIABLES
    notes,      \* useState([])    : local list of notes, App.jsx:27
    loading,    \* useState(false) : App.jsx:28
    creating,   \* useState(false) : App.jsx:29
    title,      \* useState("")    : App.jsx:30
    content,    \* useState("")    : App.jsx:31
    file,       \* useState(null)  : App.jsx:32
    preview,    \* useState("")    : App.jsx:33
    objectUrls, \* URLs made by URL.createObjectURL and not yet revoked
    cleanup,    \* the URL the pending cleanup of the preview effect revokes
    staleRevoke,\* history: a URL has been revoked that was not live
    torn,       \* the component has been torn down
    uncaught,   \* history: an error has left an operation uncaught
    mounted,    \* the mount effect of App.jsx:65-68 has run
    tasks,      \* the invocations of fetchNotes/createNote/deleteNote in flight
    server,     \* notes held by the remote data service
    nextId,     \* next identifier the data service assigns
    storage,    \* paths held by the remote storage service
    listOrder,  \* the order in which the data service lists notes
    ops,        \* number of operations started so far
    lastOp      \* history: "createNote" after a submit, the outcome of the
                \* remote call after a step in which one settled, else "other"

vars == <<notes, loading, creating, title, content, file, preview,
          objectUrls, cleanup, staleRevoke, torn, uncaught, mounted,
          tasks, server, nextId, storage, listOrder, ops, lastOp>>

\* The browser's object URLs and the effect cleanup that is to revoke one.
urls == <<objectUrls, cleanup, staleRevoke>>

local == <<notes, loading, creating, title, content, file, preview>>

-----------------------------------------------------------------------------
(* Bounds *)

MaxTasks == 2       \* operations that can be in flight at the same time
MaxOps == 3         \* operations started in one run, the mount refresh included
MaxLen == 2         \* length of the texts typed into the form under SpecForm

-----------------------------------------------------------------------------
(* Values *)

\* Text is a sequence of one-character strings.
Whitespace == {" ", "\n"}

\* Texts typed under Spec and SpecSeq: a title with a blank before it, a
\* blank content.
TitleInputs == { <<>>, <<" ", "a">> }
ContentInputs == { <<>>, <<"\n">> }

\* Texts typed under SpecForm: every text of at most MaxLen characters.
FormTexts == UNION {[1..n -> {" ", "a"}] : n \in 0..MaxLen}

Untitled == <<"U", "n", "t", "i", "t", "l", "e", "d">>

NoFile == "null"
Files == {"cat.png"}

NoKey == <<>>           \* imageKey undefined
NoUrl == <<>>           \* preview "", no cleanup pending
identityId == "abc123"
Times == {1, 2}           \* values Date.now() takes

SeedKey == <<"media", identityId, 0, "seed.png">>
SeedNote == [id |-> 1, title |-> <<"s">>, content |-> <<>>, imageKey |-> SeedKey]

\* What the data service holds when the component is constructed: one note
\* with an image, left by an earlier session.
InitialServer == {SeedNote}

Slots == 1..MaxTasks

Idle == [kind |-> "idle", pc |-> "idle", note |-> <<>>,
         title |-> <<>>, content |-> <<>>, file |-> NoFile,
         req |-> <<>>, crRes |-> "none", delRes |-> "none",
         removes |-> <<>>, listRes |-> "none", data |-> <<>>, res |-> <<>>]

-----------------------------------------------------------------------------
(* Pure helpers *)

RECURSIVE TrimStart(_)
TrimStart(s) ==
    IF s # <<>> /\ Head(s) \in Whitespace THEN TrimStart(Tail(s)) ELSE s

RECURSIVE TrimEnd(_)
TrimEnd(s) ==
    IF s # <<>> /\ s[Len(s)] \in Whitespace
    THEN TrimEnd(SubSeq(s, 1, Len(s) - 1)) ELSE s

\* String.prototype.trim
Trim(s) == TrimEnd(TrimStart(s))

\* A variant of IsBlank that tests the texts as typed, not trimmed.
IsBlankUntrimmed(t, c) == t = <<>> /\ c = <<>>

\* App.jsx:73  !title.trim() && !content.trim()
IsBlank(t, c) == Trim(t) = <<>> /\ Trim(c) = <<>>

\* A variant of NoteTitle without the default.
NoteTitleNoDefault(t) == Trim(t)

\* App.jsx:91  title.trim() || "Untitled"
NoteTitle(t) == IF Trim(t) # <<>> THEN Trim(t) ELSE Untitled

\* App.jsx:90-94  the argument of client.models.Note.create
CreateInput(t, c, k) == [title |-> NoteTitle(t), content |-> Trim(c), imageKey |-> k]

\* App.jsx:84  `media/${identityId}/${Date.now()}-${file.name}`
UploadPath(ident, now, name) == <<"media", ident, now, name>>

\* App.jsx:81-85  the argument of uploadData, its path callback applied
UploadInput(f, now) == [data |-> f, path |-> UploadPath(identityId, now, f)]

\* A variant of ImageKeyOf that reads only the key of the result.
ImageKeyOfKey(result) == result.key

\* App.jsx:86  result?.path || result?.key || undefined
ImageKeyOf(result) ==
    IF result.path # NoKey THEN result.path
    ELSE IF result.key # NoKey THEN result.key
    ELSE NoKey

\* App.jsx:47, 119  truthiness of an imageKey
HasImageKey(n) == n.imageKey # NoKey

\* App.jsx:118  the argument of client.models.Note.delete
DeleteInput(n) == [id |-> n.id]

\* A variant of RemoveInput that rebuilds the path from the id of the note.
RemoveInputById(n) == [path |-> <<"media", identityId, n.id, "image">>]

\* App.jsx:121  the argument of remove
RemoveInput(n) == [path |-> n.imageKey]

\* App.jsx:50  url?.url?.toString?.()
UrlString(u) == u.url.href

\* A variant of ResolveOne that sets imageUrl also when getUrl failed.
ResolveOneAlways(n, r) ==
    IF r \in {"ok", "fail"}
    THEN [id |-> n.id, title |-> n.title, content |-> n.content,
          imageKey |-> n.imageKey, imageUrl |-> <<>>]
    ELSE n

\* App.jsx:46-55  the value one element of the map settles to
ResolveOne(n, r) ==
    IF r = "ok"
    THEN [id |-> n.id, title |-> n.title, content |-> n.content,
          imageKey |-> n.imageKey,
          imageUrl |-> UrlString([url |-> [href |-> <<"https", n.imageKey>>]])]
    ELSE n

\* A variant of WithUrls that keeps only the notes with an imageKey.
WithUrlsKeyedOnly(data, res) ==
    SelectSeq([k \in 1..Len(data) |-> ResolveOne(data[k], res[k])], HasImageKey)

\* App.jsx:45-56  withUrls once every element has settled
WithUrls(data, res) == [k \in 1..Len(data) |-> ResolveOne(data[k], res[k])]

\* App.jsx:46-49  the state each element of the map starts in
Dispatch(data) ==
    [k \in 1..Len(data) |-> IF HasImageKey(data[k]) THEN "pending" ELSE "na"]

\* A variant of Settled that is content with the first element to settle.
SettledAny(res) == res = <<>> \/ \E k \in 1..Len(res) : res[k] # "pending"

\* App.jsx:45  Promise.all resolves once every element of the map has.
Settled(res) == \A k \in 1..Len(res) : res[k] # "pending"

\* A note as the data service holds it (imageUrl is derived, never stored).
Stored(n) == [id |-> n.id, title |-> n.title, content |-> n.content,
              imageKey |-> n.imageKey]

RECURSIVE Ascending(_)
Ascending(S) ==
    IF S = {} THEN <<>>
    ELSE LET m == CHOOSE n \in S : \A o \in S : n.id <= o.id
         IN  <<m>> \o Ascending(S \ {m})

Reverse(s) == [k \in 1..Len(s) |-> s[Len(s) + 1 - k]]

\* App.jsx:41  the data of a list response: the notes held, in the order of
\* the service.
Listing(S) == IF listOrder = "asc" THEN Ascending(S) ELSE Reverse(Ascending(S))

FreeSlots == {i \in Slots : tasks[i].kind = "idle"}
FreeSlot == CHOOSE i \in FreeSlots : \A j \in FreeSlots : i <= j

InRefresh(t) == t.pc \in {"list", "listed", "resolve"}

-----------------------------------------------------------------------------
(* State after construction: App.jsx:27-34 *)

Init ==
    /\ notes = <<>>
    /\ loading = FALSE
    /\ creating = FALSE
    /\ title = <<>>
    /\ content = <<>>
    /\ file = NoFile
    /\ preview = NoUrl
    /\ objectUrls = {}
    /\ cleanup = NoUrl
    /\ staleRevoke = FALSE
    /\ torn = FALSE
    /\ uncaught = FALSE
    /\ mounted = FALSE
    /\ tasks = [i \in Slots |-> Idle]
    /\ server = InitialServer
    /\ nextId = Cardinality(server) + 1
    /\ storage = {n.imageKey : n \in server}
    /\ listOrder \in {"asc", "desc"}
    /\ ops = 0
    /\ lastOp = "other"

-----------------------------------------------------------------------------
(* try/catch: App.jsx:39-62, 78-111, 117-126 *)

\* A variant of TryBlock in which createNote's try starts after the upload.
TryBlockAfterUpload(op) ==
    IF op = "fetchNotes" THEN {"list"}
    ELSE IF op = "createNote" THEN {"create"}
    ELSE {"delete", "remove"}

\* App.jsx:39-62, 78-111, 117-126  the remote calls awaited inside the
\* try block of each operation.
TryBlock(op) ==
    IF op = "fetchNotes" THEN {"list"}
    ELSE IF op = "createNote" THEN {"upload", "create"}
    ELSE {"delete", "remove"}

\* An error thrown by the call is caught by the catch of the operation.
Catches(op, call) == call \in TryBlock(op)

-----------------------------------------------------------------------------
(* fetchNotes: App.jsx:37-63 *)

\* App.jsx:38-41  setLoading(true) and the list request; what the operation
\* held for its earlier requests is no longer used.
StartFetch(t) ==
    [t EXCEPT !.pc = "list", !.title = <<>>, !.content = <<>>,
              !.file = NoFile, !.req = <<>>]

\* A variant of FinishFetch whose setNotes is in the finally clause.
FinishFetchAlwaysWrites(i, t, written, withUrls) ==
    /\ notes' = withUrls
    /\ loading' = FALSE
    /\ creating' = IF t.kind = "create" THEN FALSE ELSE creating
    /\ tasks' = [tasks EXCEPT ![i] = Idle]

\* App.jsx:57-62 and the code of the caller that follows `await fetchNotes()`:
\* setNotes when the try block got that far, setLoading(false) in finally,
\* then createNote's finally (App.jsx:110) or the end of deleteNote.
FinishFetch(i, t, written, withUrls) ==
    /\ notes' = IF written THEN withUrls ELSE notes
    /\ loading' = FALSE
    /\ creating' = IF t.kind = "create" THEN FALSE ELSE creating
    /\ tasks' = [tasks EXCEPT ![i] = Idle]

\* App.jsx:65-68  the mount effect calls fetchNotes once.
Mount ==
    /\ ~mounted
    /\ mounted' = TRUE
    /\ loading' = TRUE
    /\ tasks' = [tasks EXCEPT ![FreeSlot] = StartFetch([Idle EXCEPT !.kind = "refresh"])]
    /\ lastOp' = "other"
    /\ ops' = ops + 1
    /\ UNCHANGED <<notes, creating, title, content, file, preview, urls, torn,
                   uncaught, server, nextId, storage, listOrder>>

\* The data service evaluates the list request of App.jsx:41; its response
\* is then on its way to the client.
ListServe(i, r) ==
    /\ tasks[i].pc = "list"
    /\ tasks' = [tasks EXCEPT ![i] =
           [@ EXCEPT !.pc = "listed", !.listRes = r,
                     !.data = IF r = "ok" THEN Listing(server) ELSE <<>>]]
    /\ lastOp' = r
    /\ UNCHANGED <<local, urls, torn, uncaught, mounted, server, nextId,
                   storage, ops, listOrder>>

\* App.jsx:41-57  the list response arrives: a thrown error goes to catch and
\* finally; otherwise one getUrl is sent for each note with an imageKey, and
\* with none to wait for the list is written at once.
ListReturn(i) ==
    LET t == tasks[i]
        res == Dispatch(t.data)
    IN  /\ t.pc = "listed"
        /\ IF t.listRes = "throw"
           THEN /\ FinishFetch(i, t, FALSE, <<>>)
           ELSE IF Settled(res)
           THEN /\ FinishFetch(i, t, TRUE, WithUrls(t.data, res))
           ELSE /\ tasks' = [tasks EXCEPT ![i] = [t EXCEPT !.pc = "resolve", !.res = res]]
                /\ UNCHANGED <<notes, loading, creating>>
        /\ uncaught' = (uncaught \/ (t.listRes = "throw"
                                         /\ ~Catches("fetchNotes", "list")))
        /\ lastOp' = "other"
        /\ UNCHANGED <<title, content, file, preview, urls, torn, mounted,
                       server, nextId, storage, ops, listOrder>>

\* App.jsx:48-54  one getUrl settles; App.jsx:45, 57: when it was the last
\* one, Promise.all resolves and the list is written.
UrlSettle(i, k, r) ==
    LET t == tasks[i]
        res == [t.res EXCEPT ![k] = r]
    IN  /\ t.pc = "resolve"
        /\ k \in 1..Len(t.res)
        /\ t.res[k] = "pending"
        /\ IF Settled(res)
           THEN /\ FinishFetch(i, t, TRUE, WithUrls(t.data, res))
           ELSE /\ tasks' = [tasks EXCEPT ![i] = [t EXCEPT !.res = res]]
                /\ UNCHANGED <<notes, loading, creating>>
        /\ lastOp' = r
        /\ UNCHANGED <<title, content, file, preview, urls, torn, uncaught,
                       mounted, server, nextId, storage, ops, listOrder>>

-----------------------------------------------------------------------------
(* The form: App.jsx:155, 161, 168 and the preview effect App.jsx:130-135 *)

SetTitle(s) ==
    /\ mounted
    /\ s # title
    /\ title' = s
    /\ lastOp' = "other"
    /\ UNCHANGED <<notes, loading, creating, content, file, preview, urls,
                   torn, uncaught, mounted, tasks, server, nextId, storage,
                   ops, listOrder>>

SetContent(s) ==
    /\ mounted
    /\ s # content
    /\ content' = s
    /\ lastOp' = "other"
    /\ UNCHANGED <<notes, loading, creating, title, file, preview, urls,
                   torn, uncaught, mounted, tasks, server, nextId, storage,
                   ops, listOrder>>

\* App.jsx:132  URL.createObjectURL(f): a URL for f that is none of the URLs
\* still held somewhere (unreleased, shown as preview, kept by the cleanup).
CreateObjectURL(f, held) ==
    LET used == {u[3] : u \in held \ {NoUrl}}
        n == CHOOSE n \in 1..(Cardinality(used) + 1) :
                 n \notin used /\ \A m \in 1..(n - 1) : m \in used
    IN  <<"blob", f, n>>

\* App.jsx:134  URL.revokeObjectURL(u)
RevokeObjectURL(live, u) == live \ {u}

\* A variant of RunCleanup for an effect that returns no cleanup.
RunCleanupNever == [objectUrls |-> objectUrls, staleRevoke |-> staleRevoke]

\* App.jsx:134  the cleanup that the last run of the preview effect returned,
\* run before the next run of the effect and at teardown.
RunCleanup ==
    [objectUrls  |-> IF cleanup = NoUrl THEN objectUrls
                     ELSE RevokeObjectURL(objectUrls, cleanup),
     staleRevoke |-> staleRevoke \/ (cleanup # NoUrl /\ cleanup \notin objectUrls)]

\* App.jsx:130-135  the preview effect after file has changed to f: the
\* cleanup of its last run, then its body.
PreviewEffect(f) ==
    LET live == RunCleanup.objectUrls
        url  == CreateObjectURL(f, live \cup {cleanup, preview})
    IN  [preview     |-> IF f = NoFile THEN NoUrl ELSE url,
         objectUrls  |-> IF f = NoFile THEN live ELSE live \cup {url},
         cleanup     |-> IF f = NoFile THEN NoUrl ELSE url,
         staleRevoke |-> RunCleanup.staleRevoke]

\* App.jsx:131-133  the preview that the effect sets for a first file
PreviewOf(f) == IF f = NoFile THEN NoUrl ELSE CreateObjectURL(f, {})

\* App.jsx:168  a file is selected or the selection is cleared; the effect
\* of App.jsx:130-135 follows the render.
SetFile(f) ==
    /\ mounted
    /\ f # file
    /\ file' = f
    /\ preview' = PreviewEffect(f).preview
    /\ objectUrls' = PreviewEffect(f).objectUrls
    /\ cleanup' = PreviewEffect(f).cleanup
    /\ staleRevoke' = PreviewEffect(f).staleRevoke
    /\ lastOp' = "other"
    /\ UNCHANGED <<notes, loading, creating, title, content, torn, uncaught,
                   mounted, tasks, server, nextId, storage, ops, listOrder>>

\* The component is torn down: React runs the cleanup of the preview effect
\* (App.jsx:134).
Unmount ==
    /\ mounted
    /\ ~torn
    /\ torn' = TRUE
    /\ objectUrls' = RunCleanup.objectUrls
    /\ staleRevoke' = RunCleanup.staleRevoke
    /\ cleanup' = NoUrl
    /\ lastOp' = "other"
    /\ UNCHANGED <<local, uncaught, mounted, tasks, server, nextId, storage,
                   ops, listOrder>>

-----------------------------------------------------------------------------
(* createNote: App.jsx:71-112 *)

\* A variant of CreateAborts that also gives up on an errors list.
CreateAbortsOnErrors(r) == r \in {"throw", "errors"}

\* App.jsx:90-95, 107  the create call sends createNote to catch only when
\* it throws; an errors list in its response is logged and nothing more.
CreateAborts(r) == r = "throw"

\* A variant of AbortCreate whose catch removes the file of the request.
AbortCreateRollback(i) ==
    /\ creating' = FALSE
    /\ tasks' = [tasks EXCEPT ![i] = Idle]
    /\ storage' = IF "imageKey" \in DOMAIN tasks[i].req
                   THEN storage \ {tasks[i].req.imageKey} ELSE storage

\* App.jsx:107-111  catch and finally of createNote after a thrown error:
\* the error is logged, creating is reset, nothing is sent to the storage.
AbortCreate(i) ==
    /\ creating' = FALSE
    /\ tasks' = [tasks EXCEPT ![i] = Idle]
    /\ storage' = storage

\* App.jsx:72-94  up to the first await: the upload when a file is selected,
\* the create request otherwise.
CreateNote ==
    /\ mounted
    /\ lastOp' = "createNote"
    /\ IF IsBlank(title, content)
       THEN UNCHANGED <<local, tasks, ops>>
       ELSE /\ FreeSlots # {}
            /\ ops < MaxOps
            /\ ops' = ops + 1
            /\ creating' = TRUE
            /\ \E now \in Times :
                 LET t == [Idle EXCEPT !.kind = "create", !.title = title,
                                       !.content = content, !.file = file]
                 IN  tasks' = [tasks EXCEPT ![FreeSlot] =
                        IF file # NoFile
                        THEN [t EXCEPT !.pc = "upload",
                                       !.req = UploadInput(file, now)]
                        ELSE [t EXCEPT !.pc = "create",
                                       !.req = CreateInput(title, content, NoKey)]]
            /\ UNCHANGED <<notes, loading, title, content, file, preview>>
    /\ UNCHANGED <<urls, torn, uncaught, mounted, server, nextId, storage,
                   listOrder>>

\* App.jsx:81-94  the upload settles: on success the create request is sent
\* with the returned path, on failure the operation ends in catch/finally.
UploadReturn(i, r) ==
    LET t == tasks[i]
        result == [path |-> t.req.path, key |-> NoKey]
    IN  /\ t.pc = "upload"
        /\ IF r = "ok"
           THEN /\ storage' = storage \cup {t.req.path}
                /\ tasks' = [tasks EXCEPT ![i] =
                       [t EXCEPT !.pc = "create",
                                 !.req = CreateInput(t.title, t.content,
                                                     ImageKeyOf(result))]]
                /\ UNCHANGED creating
           ELSE /\ AbortCreate(i)
        /\ uncaught' = (uncaught \/ (r = "throw" /\ ~Catches("createNote", "upload")))
        /\ lastOp' = r
        /\ UNCHANGED <<notes, loading, title, content, file, preview, urls, torn,
                       mounted, server, nextId, ops, listOrder>>

\* A variant of ClearedForm that leaves the title in the form.
ClearedFormKeepsTitle ==
    [title |-> title, content |-> <<>>, file |-> NoFile, preview |-> NoUrl]

\* App.jsx:98-101  setTitle(""), setContent(""), setFile(null), setPreview("")
ClearedForm ==
    [title |-> <<>>, content |-> <<>>, file |-> NoFile, preview |-> NoUrl]

\* App.jsx:90-105  the create request settles: unless it threw, the form is
\* cleared and fetchNotes is started; when that changes file, the preview
\* effect (App.jsx:130-135) follows the render.
CreateReturn(i, r) ==
    LET t == tasks[i]
    IN  /\ t.pc = "create"
        /\ IF r = "ok"
           THEN /\ server' = server \cup {[id |-> nextId, title |-> t.req.title,
                                            content |-> t.req.content,
                                            imageKey |-> t.req.imageKey]}
                /\ nextId' = nextId + 1
           ELSE UNCHANGED <<server, nextId>>
        /\ IF CreateAborts(r)
           THEN /\ AbortCreate(i)
                /\ UNCHANGED <<loading, title, content, file, preview, urls>>
           ELSE /\ title' = ClearedForm.title
                /\ content' = ClearedForm.content
                /\ file' = ClearedForm.file
                /\ preview' = ClearedForm.preview
                /\ IF ClearedForm.file # file
                   THEN /\ objectUrls' = PreviewEffect(ClearedForm.file).objectUrls
                        /\ cleanup' = PreviewEffect(ClearedForm.file).cleanup
                        /\ staleRevoke' = PreviewEffect(ClearedForm.file).staleRevoke
                   ELSE UNCHANGED urls
                /\ loading' = TRUE
                /\ tasks' = [tasks EXCEPT ![i] = StartFetch([t EXCEPT !.crRes = r])]
                /\ UNCHANGED <<creating, storage>>
        /\ uncaught' = (uncaught \/ (r = "throw" /\ ~Catches("createNote", "create")))
        /\ lastOp' = r
        /\ UNCHANGED <<notes, torn, mounted, ops, listOrder>>

-----------------------------------------------------------------------------
(* deleteNote: App.jsx:115-127 *)

\* App.jsx:209, 115-118  a Delete button of a rendered card is clicked (the
\* cards are rendered only while loading is false, App.jsx:189-216); the
\* delete request is sent.
DeleteNote(k) ==
    /\ mounted
    /\ ~loading
    /\ k \in 1..Len(notes)
    /\ FreeSlots # {}
    /\ ops < MaxOps
    /\ ops' = ops + 1
    /\ tasks' = [tasks EXCEPT ![FreeSlot] =
           [Idle EXCEPT !.kind = "delete", !.pc = "delete", !.note = notes[k],
                        !.req = DeleteInput(notes[k])]]
    /\ lastOp' = "other"
    /\ UNCHANGED <<local, urls, torn, uncaught, mounted, server, nextId,
                   storage, listOrder>>

\* App.jsx:118-123  the delete request settles.  A thrown error ends the
\* operation in catch; any returned value, with or without an errors list,
\* is discarded and the code goes on to the removal of the file, or to
\* fetchNotes when the note has no imageKey.
DeleteReturn(i, r) ==
    LET t == tasks[i]
        held == {n \in server : n.id = t.req.id}
        u == [t EXCEPT !.delRes = r]
    IN  /\ t.pc = "delete"
        /\ r = "ok" => held # {}
        /\ server' = IF r = "ok" THEN server \ held ELSE server
        /\ IF r = "throw"
           THEN /\ tasks' = [tasks EXCEPT ![i] = Idle]
                /\ UNCHANGED loading
           ELSE IF HasImageKey(t.note)
           THEN /\ tasks' = [tasks EXCEPT ![i] =
                       [u EXCEPT !.pc = "remove", !.req = RemoveInput(t.note),
                                 !.removes = Append(t.removes, RemoveInput(t.note))]]
                /\ UNCHANGED loading
           ELSE /\ tasks' = [tasks EXCEPT ![i] = StartFetch(u)]
                /\ loading' = TRUE
        /\ uncaught' = (uncaught \/ (r = "throw" /\ ~Catches("deleteNote", "delete")))
        /\ lastOp' = r
        /\ UNCHANGED <<notes, creating, title, content, file, preview, urls, torn,
                       mounted, nextId, storage, ops, listOrder>>

\* A variant of RemoveFulfils without the .catch(() => {}).
RemoveFulfilsOnSuccess(r) == r = "ok"

\* App.jsx:121  remove(...).catch(() => {}) is fulfilled however remove
\* settles.
RemoveFulfils(r) == r \in {"ok", "fail"}

\* App.jsx:121-126  the removal settles; a rejection is swallowed by
\* .catch(() => {}), and fetchNotes is started either way.  A rejection
\* that reached the await would end deleteNote in its catch.
RemoveReturn(i, r) ==
    LET t == tasks[i]
    IN  /\ t.pc = "remove"
        /\ storage' = IF r = "ok" THEN storage \ {t.req.path} ELSE storage
        /\ IF RemoveFulfils(r)
           THEN /\ tasks' = [tasks EXCEPT ![i] = StartFetch(t)]
                /\ loading' = TRUE
           ELSE /\ tasks' = [tasks EXCEPT ![i] = Idle]
                /\ UNCHANGED loading
        /\ uncaught' = (uncaught \/ (~RemoveFulfils(r) /\ ~Catches("deleteNote", "remove")))
        /\ lastOp' = r
        /\ UNCHANGED <<notes, creating, title, content, file, preview, urls, torn,
                       mounted, server, nextId, ops, listOrder>>

-----------------------------------------------------------------------------
(* Specifications *)

Outcomes == {"ok", "errors", "throw"}

\* The steps in which a remote call settles and an operation goes on.
Settle ==
    \/ \E i \in Slots, r \in {"ok", "throw"} : UploadReturn(i, r)
    \/ \E i \in Slots, r \in Outcomes : CreateReturn(i, r)
    \/ \E i \in Slots, r \in Outcomes : DeleteReturn(i, r)
    \/ \E i \in Slots, r \in {"ok", "fail"} : RemoveReturn(i, r)
    \/ \E i \in Slots, r \in Outcomes : ListServe(i, r)
    \/ \E i \in Slots : ListReturn(i)
    \/ \E i \in Slots, k \in 1..MaxOps, r \in {"ok", "fail"} : UrlSettle(i, k, r)

\* Spec: every interleaving of up to MaxTasks operations whose remote calls
\* all succeed, texts of TitleInputs and ContentInputs typed into the form.
Next ==
    \/ Mount
    \/ \E s \in TitleInputs : SetTitle(s)
    \/ \E s \in ContentInputs : SetContent(s)
    \/ \E f \in Files \cup {NoFile} : SetFile(f)
    \/ CreateNote
    \/ \E k \in 1..MaxOps : DeleteNote(k)
    \/ \E i \in Slots : UploadReturn(i, "ok")
    \/ \E i \in Slots : CreateReturn(i, "ok")
    \/ \E i \in Slots : DeleteReturn(i, "ok")
    \/ \E i \in Slots : RemoveReturn(i, "ok")
    \/ \E i \in Slots : ListServe(i, "ok")
    \/ \E i \in Slots : ListReturn(i)
    \/ \E i \in Slots, k \in 1..MaxOps : UrlSettle(i, k, "ok")

Spec == Init /\ [][Next]_vars

Quiet == \A i \in Slots : tasks[i].kind = "idle"

\* SpecSeq: the operations one after the other, every outcome of every remote
\* call, a title of TitleInputs typed into the form at any time.
NextSeq ==
    \/ Mount
    \/ \E s \in TitleInputs : SetTitle(s)
    \/ \E f \in Files \cup {NoFile} : SetFile(f)
    \/ (Quiet \/ IsBlank(title, content)) /\ CreateNote
    \/ Quiet /\ \E k \in 1..MaxOps : DeleteNote(k)
    \/ Settle

SpecSeq == Init /\ [][NextSeq]_vars

\* SpecForm: the component mounted and its first refresh done, the form
\* filled in with any texts of FormTexts and submitted.
InitForm ==
    /\ notes = WithUrls(<<SeedNote>>, <<"ok">>)
    /\ loading = FALSE
    /\ creating = FALSE
    /\ title \in FormTexts
    /\ content \in FormTexts
    /\ file \in Files \cup {NoFile}
    /\ preview = PreviewOf(file)
    /\ objectUrls = {PreviewOf(file)} \ {NoUrl}
    /\ cleanup = PreviewOf(file)
    /\ staleRevoke = FALSE
    /\ torn = FALSE
    /\ uncaught = FALSE
    /\ mounted = TRUE
    /\ tasks = [i \in Slots |-> Idle]
    /\ server = InitialServer
    /\ nextId = Cardinality(server) + 1
    /\ storage = {n.imageKey : n \in server}
    /\ listOrder \in {"asc", "desc"}
    /\ ops = 1
    /\ lastOp = "other"

NextForm ==
    \/ Quiet /\ CreateNote
    \/ \E i \in Slots, r \in {"ok", "throw"} : UploadReturn(i, r)
    \/ \E i \in Slots, r \in Outcomes : CreateReturn(i, r)
    \/ \E i \in Slots, r \in Outcomes : ListServe(i, r)
    \/ \E i \in Slots : ListReturn(i)
    \/ \E i \in Slots, k \in 1..MaxOps, r \in {"ok", "fail"} : UrlSettle(i, k, r)

SpecForm == InitForm /\ [][NextForm]_vars

\* SpecPreview: files of PreviewFiles selected, replaced and cleared, notes
\* created one at a time, their upload and create calls succeeding or
\* throwing, and the component torn down at any time, after which nothing
\* is rendered.
PreviewFiles == {"cat.png", "dog.png"}

NextPreview ==
    \/ Mount
    \/ ~torn /\ \E s \in TitleInputs : SetTitle(s)
    \/ ~torn /\ \E f \in PreviewFiles \cup {NoFile} : SetFile(f)
    \/ ~torn /\ Quiet /\ CreateNote
    \/ ~torn /\ \E i \in Slots, r \in {"ok", "throw"} : UploadReturn(i, r)
    \/ ~torn /\ \E i \in Slots, r \in {"ok", "throw"} : CreateReturn(i, r)
    \/ ~torn /\ \E i \in Slots : ListServe(i, "ok")
    \/ ~torn /\ \E i \in Slots : ListReturn(i)
    \/ ~torn /\ \E i \in Slots, k \in 1..MaxOps : UrlSettle(i, k, "ok")
    \/ Unmount

SpecPreview == Init /\ [][NextPreview]_vars

-----------------------------------------------------------------------------
(* Vocabulary of the properties *)

\* The notes of the local list as the data service holds them.
StoredNotes(l) == {Stored(l[k]) : k \in 1..Len(l)}

HasUrl(n) == "imageUrl" \in DOMAIN n

\* Operation i runs to its end in this step.
Ends(i) == tasks[i].kind # "idle" /\ tasks'[i].kind = "idle"

\* The refresh of operation i ends in this step by writing the local list.
Writes(i) ==
    /\ tasks[i].pc \in {"listed", "resolve"}
    /\ tasks[i].listRes # "throw"
    /\ Ends(i)

\* Operation i sends the request of position p in this step.
Sends(i, p) == tasks'[i].pc = p /\ tasks[i].pc # p

AllWhitespace(s) == \A k \in 1..Len(s) : s[k] \in Whitespace

-----------------------------------------------------------------------------
(* C1, under Spec *)

\* C1: whenever no operation is in flight and a createNote or deleteNote
\* has run to its end (under Spec no remote call fails), the local list
\* holds exactly the notes the data service holds.
C1_Convergence ==
    (Quiet /\ ops >= 2) =>
        /\ StoredNotes(notes) = server
        /\ Len(notes) = Cardinality(server)

-----------------------------------------------------------------------------
(* C2, under SpecSeq *)

\* C2: when the delete request of deleteNote(n) succeeds the data service
\* drops n and nothing else, and the list that the refresh of that deleteNote
\* writes holds every note the service still holds and does not hold n.
C2_DeleteRemovesExactly ==
    [][\A i \in Slots :
          /\ (tasks[i].pc = "delete" /\ tasks'[i].delRes = "ok") =>
                /\ Stored(tasks[i].note) \in server
                /\ server' = server \ {Stored(tasks[i].note)}
          /\ (tasks[i].kind = "delete" /\ tasks[i].delRes = "ok"
                 /\ tasks[i].listRes = "ok" /\ Writes(i)) =>
                /\ \A k \in 1..Len(notes') : notes'[k].id # tasks[i].note.id
                /\ StoredNotes(notes') = server
                /\ Len(notes') = Cardinality(server)
      ]_vars

\* The refresh of a successful deleteNote(n) has got its list, which holds
\* another note and not n.
C2_Witness ==
    \E i \in Slots :
        /\ tasks[i].kind = "delete"
        /\ tasks[i].delRes = "ok"
        /\ tasks[i].pc = "listed"
        /\ tasks[i].listRes = "ok"
        /\ Len(tasks[i].data) >= 1
        /\ \A k \in 1..Len(tasks[i].data) : tasks[i].data[k].id # tasks[i].note.id

-----------------------------------------------------------------------------
(* C3, under SpecSeq *)

\* C3: a deleteNote whose delete request has returned has sent exactly one
\* removal, for the imageKey of its note, when the note has one, and none
\* otherwise; no other operation and no deleteNote whose delete request has
\* not returned has sent any.
C3_RemovalRequests ==
    \A i \in Slots :
        tasks[i].removes =
            IF /\ tasks[i].kind = "delete"
               /\ tasks[i].delRes \in {"ok", "errors"}
               /\ tasks[i].note.imageKey # NoKey
            THEN << [path |-> tasks[i].note.imageKey] >>
            ELSE << >>

\* A deleteNote of a note with an imageKey has sent its removal.
C3_Witness ==
    \E i \in Slots :
        /\ tasks[i].kind = "delete"
        /\ tasks[i].pc = "remove"
        /\ tasks[i].req = [path |-> SeedKey]
        /\ tasks[i].removes = << [path |-> SeedKey] >>

-----------------------------------------------------------------------------
(* C4, under SpecForm *)

\* C4: a createNote invoked while title and content hold nothing but
\* whitespace changes no local state, starts no operation and sends no
\* request, whether or not a file is selected.
C4_BlankCreateIsNoOp ==
    [][(lastOp' = "createNote" /\ AllWhitespace(title) /\ AllWhitespace(content))
          => UNCHANGED <<notes, loading, creating, title, content, file, preview,
                         tasks, server, nextId, storage, ops>>
      ]_vars

\* createNote has been invoked on a form with a file selected whose title and
\* content are whitespace, and nothing is in flight.
C4_Witness ==
    /\ lastOp = "createNote"
    /\ title # <<>> /\ AllWhitespace(title)
    /\ content # <<>> /\ AllWhitespace(content)
    /\ file # NoFile
    /\ Quiet
    /\ ~creating

-----------------------------------------------------------------------------
(* C5, under SpecForm *)

\* r is s without the whitespace at its two ends.
IsTrimOf(r, s) ==
    /\ r # <<>> => (r[1] \notin Whitespace /\ r[Len(r)] \notin Whitespace)
    /\ \E a \in 0..Len(s) :
          /\ a + Len(r) <= Len(s)
          /\ r = SubSeq(s, a + 1, a + Len(r))
          /\ \A k \in 1..a : s[k] \in Whitespace
          /\ \A k \in a + Len(r) + 1..Len(s) : s[k] \in Whitespace

\* C5: the create request of a createNote carries the trimmed title, or
\* "Untitled" when the title is blank, the trimmed content, and no imageKey
\* when no file is attached.
C5_CreateRequest ==
    [][\A i \in Slots :
          Sends(i, "create") =>
              LET q == tasks'[i].req
              IN  /\ IF AllWhitespace(title) THEN q.title = Untitled
                                             ELSE IsTrimOf(q.title, title)
                  /\ IsTrimOf(q.content, content)
                  /\ file = NoFile => q.imageKey = NoKey
      ]_vars

\* A create request titled "Untitled", with a content that lost whitespace
\* and no imageKey, is in flight.
C5_Witness ==
    \E i \in Slots :
        /\ tasks[i].pc = "create"
        /\ tasks[i].req.title = Untitled
        /\ tasks[i].req.content # <<>>
        /\ Len(tasks[i].req.content) < Len(tasks[i].content)
        /\ tasks[i].req.imageKey = NoKey

-----------------------------------------------------------------------------
(* C6, under SpecSeq *)

\* How the getUrl of element k of the refresh of operation i has settled
\* when that refresh writes in this step: the one still pending settles in
\* the step itself.
Resolution(i, k) ==
    IF tasks[i].pc = "listed" THEN "na"
    ELSE IF tasks[i].res[k] = "pending" THEN lastOp'
    ELSE tasks[i].res[k]

\* C6: a refresh whose list request did not throw ends by writing the notes
\* of the list response, in its order and with id, title, content and
\* imageKey as listed, each with an imageUrl exactly when it has an imageKey
\* and its own getUrl succeeded; a refresh in which a getUrl has failed
\* still ends that way.
C6_RefreshResult ==
    [][\A i \in Slots :
          /\ Writes(i) =>
                /\ Len(notes') = Len(tasks[i].data)
                /\ \A k \in 1..Len(tasks[i].data) :
                      /\ Stored(notes'[k]) = tasks[i].data[k]
                      /\ HasUrl(notes'[k]) <=>
                            (tasks[i].data[k].imageKey # NoKey
                               /\ Resolution(i, k) = "ok")
          /\ (tasks[i].pc = "resolve" /\ tasks'[i] # tasks[i]) =>
                (Ends(i) \/ tasks'[i].pc = "resolve")
      ]_vars

\* The list written holds two notes with an imageKey, one whose getUrl
\* failed and one whose getUrl succeeded.
C6_Witness ==
    /\ Len(notes) = 2
    /\ \E k \in 1..2 : notes[k].imageKey # NoKey /\ ~HasUrl(notes[k])
    /\ \E k \in 1..2 : HasUrl(notes[k])
    /\ StoredNotes(notes) = server

-----------------------------------------------------------------------------
(* C7, under SpecSeq *)

\* C7: with a file attached createNote sends the upload to
\* media/{identityId}/{timestamp}-{filename}; it sends the create request in
\* the step in which that upload succeeds, with the path the upload stored
\* as imageKey; when the upload fails the operation ends without a create
\* request.
C7_UploadThenCreate ==
    [][\A i \in Slots :
          /\ Sends(i, "upload") =>
                /\ file # NoFile
                /\ \E now \in Times :
                      tasks'[i].req =
                          [data |-> file, path |-> <<"media", identityId, now, file>>]
          /\ (tasks[i].kind # "create" /\ tasks'[i].kind = "create" /\ file # NoFile)
                => tasks'[i].pc = "upload"
          /\ (Sends(i, "create") /\ tasks'[i].file # NoFile) =>
                /\ tasks[i].pc = "upload"
                /\ lastOp' = "ok"
                /\ tasks'[i].req.imageKey = tasks[i].req.path
                /\ tasks[i].req.path \in storage'
          /\ (tasks[i].pc = "upload" /\ tasks'[i] # tasks[i] /\ lastOp' # "ok")
                => (Ends(i) /\ server' = server)
      ]_vars

\* A create request with the path of a stored upload as imageKey is in
\* flight.
C7_Witness ==
    \E i \in Slots :
        /\ tasks[i].pc = "create"
        /\ tasks[i].file # NoFile
        /\ tasks[i].req.imageKey \in storage
        /\ tasks[i].req.imageKey[1] = "media"

-----------------------------------------------------------------------------
(* C8, under SpecSeq *)

\* C8: a deleteNote that has sent the removal of the file has had its delete
\* request succeed, without a thrown error and without an errors list; so
\* while the removal is under way no note held by the data service refers to
\* the file.
C8_RemoveOnlyAfterDelete ==
    \A i \in Slots :
        (tasks[i].kind = "delete" /\ tasks[i].removes # <<>>) =>
            /\ tasks[i].delRes = "ok"
            /\ tasks[i].pc = "remove" =>
                   \A n \in server : n.imageKey # tasks[i].req.path

-----------------------------------------------------------------------------
(* C9, under Spec *)

\* C9: loading is true exactly in the states in which some refresh is in
\* flight.
C9_LoadingIffRefreshing ==
    loading = (\E i \in Slots : InRefresh(tasks[i]))

-----------------------------------------------------------------------------
(* C10, under SpecSeq *)

\* C10 as claimed: a createNote that passed the blank check ends only out of
\* its refresh, unless it is its create call that threw.
C10_RefreshUnlessCreateFails ==
    [][\A i \in Slots :
          (tasks[i].kind = "create" /\ Ends(i)
             /\ ~(tasks[i].pc = "create" /\ lastOp' = "throw"))
          => InRefresh(tasks[i])
      ]_vars

\* C10 as amended: a createNote that passed the blank check ends only out of
\* its refresh, unless its upload or its create call threw; a create response
\* that is returned, with or without an errors list, starts the refresh.
C10_RefreshUnlessThrown ==
    [][\A i \in Slots :
          /\ (tasks[i].kind = "create" /\ Ends(i) /\ lastOp' # "throw")
                => InRefresh(tasks[i])
          /\ (tasks[i].pc = "create" /\ tasks'[i] # tasks[i]
                 /\ lastOp' \in {"ok", "errors"})
                => (tasks'[i].pc = "list" /\ loading')
      ]_vars

\* The refresh of a createNote whose create response carried an errors list
\* is in flight.
C10_Witness ==
    \E i \in Slots :
        /\ tasks[i].kind = "create"
        /\ tasks[i].crRes = "errors"
        /\ InRefresh(tasks[i])
        /\ loading

-----------------------------------------------------------------------------
(* C11, under SpecPreview *)

\* C11: at most one URL made for a preview is unreleased; it is the one
\* shown and was made for the file now selected; with no file selected
\* (cleared by the user or by the form reset of createNote) and after
\* teardown none is unreleased; no URL is released that was released before.
C11_PreviewLifetime ==
    /\ Cardinality(objectUrls) <= 1
    /\ \A u \in objectUrls : u[2] = file /\ u = preview
    /\ (file = NoFile \/ torn) => objectUrls = {}
    /\ ~staleRevoke

\* A second file has replaced the first: its URL was made while the URL of
\* the first was still shown, and it is the only one unreleased.
C11_Witness ==
    /\ file = "dog.png"
    /\ preview = <<"blob", "dog.png", 2>>
    /\ objectUrls = {preview}
    /\ ~torn

-----------------------------------------------------------------------------
(* C12, under SpecSeq *)

\* C12: no error thrown by a remote call leaves its operation uncaught;
\* creating is false when a createNote ends and loading is false when a
\* refresh ends, however they end; with no operation left in flight the
\* view is idle.
C12_CaughtAndIdle ==
    [][/\ ~uncaught'
       /\ \A i \in Slots :
             /\ (tasks[i].kind = "create" /\ Ends(i)) => ~creating'
             /\ (InRefresh(tasks[i]) /\ Ends(i)) => ~loading'
       /\ Quiet' => (~creating' /\ ~loading')
      ]_vars

\* A createNote or deleteNote has ended in a thrown remote call, and the
\* view is idle.
C12_Witness ==
    /\ lastOp = "throw"
    /\ Quiet
    /\ ops >= 2
    /\ ~creating
    /\ ~loading

-----------------------------------------------------------------------------
(* C13, under SpecSeq *)

\* C13: when the create request of a createNote that uploaded a file throws,
\* the operation ends having sent no removal, the storage service holds
\* what it held, the uploaded file included, and the data service has got
\* no note that refers to that file.
C13_NoRollback ==
    [][\A i \in Slots :
          (tasks[i].pc = "create" /\ tasks[i].file # NoFile
             /\ tasks'[i] # tasks[i] /\ lastOp' = "throw")
          => /\ Ends(i)
             /\ tasks[i].removes = <<>>
             /\ storage' = storage
             /\ tasks[i].req.imageKey \in storage'
             /\ server' = server
      ]_vars

\* The one createNote run so far has ended in a thrown create call and the
\* storage service holds an uploaded file that no note refers to.
C13_Witness ==
    /\ lastOp = "throw"
    /\ Quiet
    /\ ops = 2
    /\ \E p \in storage :
          /\ p # SeedKey
          /\ \A n \in server : n.imageKey # p

-----------------------------------------------------------------------------
(* C14, under SpecSeq *)

\* C14: when the removal request of a deleteNote is rejected, deleteNote
\* goes on to its refresh in that very step, and no error leaves it.
C14_RemovalFailureSwallowed ==
    [][\A i \in Slots :
          (tasks[i].pc = "remove" /\ tasks'[i] # tasks[i] /\ lastOp' = "fail")
          => /\ tasks'[i].kind = "delete"
             /\ tasks'[i].pc = "list"
             /\ loading'
             /\ storage' = storage
             /\ ~uncaught'
      ]_vars

\* The refresh of a deleteNote whose delete succeeded and whose removal was
\* rejected is in flight; the file is still stored.
C14_Witness ==
    \E i \in Slots :
        /\ tasks[i].kind = "delete"
        /\ tasks[i].delRes = "ok"
        /\ tasks[i].pc = "list"
        /\ lastOp = "fail"
        /\ tasks[i].note.imageKey \in storage

-----------------------------------------------------------------------------
(* C15, under SpecForm *)

\* C15: in the step in which the create request of a createNote returns,
\* with or without an errors list, title, content, file and preview are
\* emptied and the refresh has only been started; in a step in which its
\* upload or its create request throws, title, content and file stay as
\* they are.
C15_FormReset ==
    [][\A i \in Slots :
          /\ (tasks[i].pc = "create" /\ tasks'[i] # tasks[i]
                 /\ lastOp' \in {"ok", "errors"})
             => /\ title' = <<>>
                /\ content' = <<>>
                /\ file' = NoFile
                /\ preview' = NoUrl
                /\ tasks'[i].pc = "list"
          /\ (tasks[i].pc \in {"upload", "create"} /\ tasks'[i] # tasks[i]
                 /\ lastOp' = "throw")
             => /\ UNCHANGED <<title, content, file>>
                /\ Ends(i)
      ]_vars

\* The refresh of a createNote that uploaded a file has been started and is
\* not over, and the form is empty.
C15_Witness ==
    \E i \in Slots :
        /\ tasks[i].kind = "create"
        /\ tasks[i].pc = "list"
        /\ storage # {SeedKey}
        /\ title = <<>> /\ content = <<>> /\ file = NoFile /\ preview = NoUrl
        /\ objectUrls = {}

-----------------------------------------------------------------------------
(* C16, under SpecSeq *)

\* C16: in the step in which the delete request of a deleteNote throws the
\* operation ends, having sent no removal and starting no refresh, and the
\* local list, the data service and the storage service stay as they are;
\* a refresh whose list request threw ends without changing the local list.
C16_NoChangeOnThrow ==
    [][\A i \in Slots :
          /\ (tasks[i].pc = "delete" /\ tasks'[i] # tasks[i] /\ lastOp' = "throw")
             => /\ Ends(i)
                /\ tasks[i].removes = <<>>
                /\ UNCHANGED <<notes, loading, server, storage>>
                /\ \A j \in Slots : ~InRefresh(tasks'[j])
          /\ (tasks[i].pc = "listed" /\ tasks[i].listRes = "throw"
                 /\ tasks'[i] # tasks[i])
             => /\ Ends(i)
                /\ notes' = notes
      ]_vars

\* The refresh of a successful deleteNote has ended on a thrown list
\* request: the local list still shows the note the data service dropped.
C16_Witness ==
    /\ Quiet
    /\ server = {}
    /\ Len(notes) = 1
    /\ lastOp = "other"

-----------------------------------------------------------------------------
(* C17, under SpecSeq *)

\* The elements of the refresh of operation i whose getUrl is in flight.
Pending(i) == {k \in 1..Len(tasks[i].res) : tasks[i].res[k] = "pending"}

\* C17: a refresh that has to resolve URLs sends the getUrl of every note
\* with an imageKey in one step; each later step of it settles exactly one
\* of them, with either outcome, and leaves the others in flight and the
\* local list alone, until the step that settles the last one, which writes
\* the whole list and ends the refresh; the local list changes in no other
\* step.
C17_JoinBeforeWrite ==
    [][/\ \A i \in Slots :
             /\ (tasks[i].pc = "listed" /\ tasks'[i].pc = "resolve")
                => /\ \A k \in 1..Len(tasks[i].data) :
                         (tasks'[i].res[k] = "pending")
                            <=> (tasks[i].data[k].imageKey # NoKey)
                   /\ notes' = notes
             /\ (tasks[i].pc = "resolve" /\ tasks'[i] # tasks[i])
                => /\ lastOp' \in {"ok", "fail"}
                   /\ IF Cardinality(Pending(i)) = 1
                      THEN /\ Writes(i)
                           /\ Len(notes') = Len(tasks[i].data)
                      ELSE /\ tasks'[i].pc = "resolve"
                           /\ notes' = notes
                           /\ \E k \in Pending(i) :
                                 /\ tasks'[i].res[k] = lastOp'
                                 /\ \A j \in 1..Len(tasks[i].res) :
                                       j # k => tasks'[i].res[j] = tasks[i].res[j]
       /\ notes' # notes => \E i \in Slots : Writes(i)
      ]_vars

\* In one refresh a getUrl has failed while another is still in flight,
\* and the local list has not been written.
C17_Witness ==
    \E i \in Slots :
        /\ tasks[i].pc = "resolve"
        /\ Len(tasks[i].data) = 2
        /\ \E k, j \in 1..2 :
              tasks[i].res[k] = "fail" /\ tasks[i].res[j] = "pending"
        /\ Len(notes) # 2

====
